---- MODULE Spec2Model ----
(***************************************************************************)
(* Gutenberg word-frequency tool: the SQLite cache store (db_utils.py),    *)
(* the text utilities (text_utils.py) and the two lookup handlers of the   *)
(* GUI (main.py).                                                          *)
(*                                                                         *)
(* Strings are sequences of one-character strings, so that lower-casing,   *)
(* tokenising, trimming and comparing are computed and not assumed.        *)
(***************************************************************************)
EXTENDS Integers, Sequences, FiniteSets, TLC

(***************************************************************************)
(* Characters and strings                                                  *)
(***************************************************************************)
UpperCase ==
    <<"A","B","C","D","E","F","G","H","I","J","K","L","M",
      "N","O","P","Q","R","S","T","U","V","W","X","Y","Z">>

LowerCase ==
    <<"a","b","c","d","e","f","g","h","i","j","k","l","m",
      "n","o","p","q","r","s","t","u","v","w","x","y","z">>

Range(s) == { s[i] : i \in DOMAIN s }

IndexIn(c, s) == CHOOSE i \in DOMAIN s : s[i] = c

\* str.lower() / SQL LOWER() on one character
LowerChar(c) ==
    IF c \in Range(UpperCase) THEN LowerCase[IndexIn(c, UpperCase)] ELSE c

\* str.upper() on one character
UpperChar(c) ==
    IF c \in Range(LowerCase) THEN UpperCase[IndexIn(c, LowerCase)] ELSE c

Lower(s) == [ i \in DOMAIN s |-> LowerChar(s[i]) ]

Upper(s) == [ i \in DOMAIN s |-> UpperChar(s[i]) ]

\* code point of a character: the order of Python's str comparison and of
\* SQLite's BINARY collation
Ord(c) ==
    IF c \in Range(UpperCase) THEN 64 + IndexIn(c, UpperCase)
    ELSE IF c \in Range(LowerCase) THEN 96 + IndexIn(c, LowerCase)
    ELSE CASE c = "\n" -> 10
           [] c = " "  -> 32
           [] c = "'"  -> 39
           [] c = "."  -> 46
           [] c = "/"  -> 47
           [] c = "1"  -> 49
           [] c = "2"  -> 50
           [] c = ":"  -> 58
           [] c = ";"  -> 59
           [] OTHER    -> 127

RECURSIVE StrLess(_, _)
StrLess(a, b) ==
    IF b = <<>> THEN FALSE
    ELSE IF a = <<>> THEN TRUE
    ELSE IF Ord(Head(a)) # Ord(Head(b)) THEN Ord(Head(a)) < Ord(Head(b))
    ELSE StrLess(Tail(a), Tail(b))

StartsWith(s, p) == Len(s) >= Len(p) /\ SubSeq(s, 1, Len(p)) = p

EndsWith(s, p) ==
    Len(s) >= Len(p) /\ SubSeq(s, Len(s) - Len(p) + 1, Len(s)) = p

Contains(s, p) ==
    \E i \in 0..(Len(s) - Len(p)) : SubSeq(s, i + 1, i + Len(p)) = p

IsSpace(c) == c \in {" ", "\n"}

RECURSIVE LStrip(_)
LStrip(s) ==
    IF s # <<>> /\ IsSpace(Head(s)) THEN LStrip(Tail(s)) ELSE s

RECURSIVE RStrip(_)
RStrip(s) ==
    IF s # <<>> /\ IsSpace(s[Len(s)])
    THEN RStrip(SubSeq(s, 1, Len(s) - 1)) ELSE s

\* str.strip()
Strip(s) == RStrip(LStrip(s))

\* s[k:] of Python
DropFirst(s, k) == IF k >= Len(s) THEN <<>> ELSE SubSeq(s, k + 1, Len(s))

\* s[:k] of Python, k >= 0
TakeFirst(s, k) == IF k >= Len(s) THEN s ELSE SubSeq(s, 1, k)

(***************************************************************************)
(* text_utils.py                                                           *)
(***************************************************************************)
STOPWORDS == {
    <<"t","h","e">>, <<"a">>, <<"a","n">>, <<"a","n","d">>, <<"o","r">>,
    <<"b","u","t">>, <<"i","f">>, <<"i","n">>, <<"o","n">>, <<"a","t">>,
    <<"t","o">>, <<"o","f">>, <<"f","o","r">>, <<"w","i","t","h">>,
    <<"w","i","t","h","o","u","t">>, <<"f","r","o","m">>, <<"b","y">>,
    <<"i">>, <<"y","o","u">>, <<"h","e">>, <<"s","h","e">>, <<"i","t">>,
    <<"w","e">>, <<"t","h","e","y">>, <<"t","h","i","s">>,
    <<"t","h","a","t">>, <<"t","h","e","s","e">>, <<"t","h","o","s","e">>,
    <<"i","s">>, <<"a","r","e">>, <<"w","a","s">>, <<"w","e","r","e">>,
    <<"b","e">>, <<"a","s">>, <<"s","o">>, <<"t","h","a","n">>,
    <<"t","h","e","n">>, <<"t","h","e","r","e">>, <<"h","e","r","e">> }

\* the characters of the class [a-z']
IsTokenChar(c) == c = "'" \/ c \in Range(LowerCase)

\* re.findall(r"[a-z']+", s): the maximal runs of token characters, in order
RECURSIVE FindAll(_, _)
FindAll(s, cur) ==
    IF s = <<>> THEN (IF cur = <<>> THEN <<>> ELSE <<cur>>)
    ELSE IF IsTokenChar(Head(s)) THEN FindAll(Tail(s), Append(cur, Head(s)))
    ELSE (IF cur = <<>> THEN <<>> ELSE <<cur>>) \o FindAll(Tail(s), <<>>)

\* [t for t in tokens if t not in STOPWORDS and len(t) > 1]
Filtered(tokens) == SelectSeq(tokens, LAMBDA t : t \notin STOPWORDS /\ Len(t) > 1)

\* the keys of collections.Counter(seq), in order of first occurrence
RECURSIVE CounterKeys(_, _)
CounterKeys(seq, seen) ==
    IF seq = <<>> THEN <<>>
    ELSE IF Head(seq) \in seen THEN CounterKeys(Tail(seq), seen)
    ELSE <<Head(seq)>> \o CounterKeys(Tail(seq), seen \cup {Head(seq)})

CountOf(w, seq) == Cardinality({ i \in DOMAIN seq : seq[i] = w })

\* Counter(seq).items(): <<word, count>> pairs in order of first occurrence
CounterItems(seq) ==
    LET keys == CounterKeys(seq, {})
    IN  [ i \in DOMAIN keys |-> <<keys[i], CountOf(keys[i], seq)>> ]

\* position of x in a stable sort by count descending: behind every item
\* whose count is at least its own
InsertByCount(sorted, x) ==
    LET k == Cardinality({ i \in DOMAIN sorted : sorted[i][2] >= x[2] })
    IN  SubSeq(sorted, 1, k) \o <<x>> \o SubSeq(sorted, k + 1, Len(sorted))

\* sorted(items, key=itemgetter(1), reverse=True): stable, so equal counts
\* keep the order of first occurrence
RECURSIVE SortByCount(_, _)
SortByCount(items, acc) ==
    IF items = <<>> THEN acc
    ELSE SortByCount(Tail(items), InsertByCount(acc, Head(items)))

\* a ranking that returns every word it counted
most_common_All(items, n) == SortByCount(items, <<>>)

\* Counter.most_common(n) = heapq.nlargest(n, items, key=count), which is
\* sorted(items, key=count, reverse=True)[:n], and [] when n <= 0
most_common(items, n) ==
    IF n <= 0 THEN <<>> ELSE TakeFirst(SortByCount(items, <<>>), n)

compute_top_words(text, n) ==
    most_common(CounterItems(Filtered(FindAll(Lower(text), <<>>))), n)

\* str.splitlines() for the line break "\n", applied to cur \o s: line k
\* is what stands between line break k - 1 and line break k, and the last
\* line needs no line break
SplitLines(s, cur) ==
    LET t      == cur \o s
        breaks == SelectSeq([ i \in DOMAIN t |-> i ], LAMBDA i : t[i] = "\n")
        count  == Len(breaks) + (IF t # <<>> /\ t[Len(t)] # "\n" THEN 1 ELSE 0)
        From(k) == IF k = 1 THEN 1 ELSE breaks[k - 1] + 1
        To(k)   == IF k <= Len(breaks) THEN breaks[k] - 1 ELSE Len(t)
    IN  [ k \in 1..count |-> SubSeq(t, From(k), To(k)) ]

TitleScanLines == 60

TitlePrefix == <<"T","I","T","L","E",":">>

UnknownTitle == <<"U","n","k","n","o","w","n"," ","T","i","t","l","e">>

\* a scan that does not stop after the first lines
extract_title_AllLines(text) ==
    LET lines  == SplitLines(text, <<>>)
        tagged == { i \in DOMAIN lines : StartsWith(Upper(Strip(lines[i])), TitlePrefix) }
        filled == { i \in DOMAIN lines : Strip(lines[i]) # <<>> }
        Min(S) == CHOOSE i \in S : \A j \in S : i <= j
    IN  IF tagged # {} THEN Strip(DropFirst(Strip(lines[Min(tagged)]), 6))
        ELSE IF filled # {} THEN Strip(lines[Min(filled)])
        ELSE UnknownTitle

extract_title(text) ==
    LET lines  == SplitLines(text, <<>>)
        head   == TakeFirst(lines, TitleScanLines)
        tagged == { i \in DOMAIN head : StartsWith(Upper(Strip(head[i])), TitlePrefix) }
        filled == { i \in DOMAIN lines : Strip(lines[i]) # <<>> }
        Min(S) == CHOOSE i \in S : \A j \in S : i <= j
    IN  IF tagged # {} THEN Strip(DropFirst(Strip(head[Min(tagged)]), 6))
        ELSE IF filled # {} THEN Strip(lines[Min(filled)])
        ELSE UnknownTitle

\* main.py asks for the ten most frequent words (n=10) and shows at most
\* ten cached rows (word_freqs[:10])
TopN == 10

(***************************************************************************)
(* The outside world: what the user can type, what the catalog can answer  *)
(* and what a location can serve.                                          *)
(***************************************************************************)
tA == <<"A">>

ta == <<"a">>

U1 == <<"u","1",".","t","x","t">>

U2 == <<"u","2">>

U3 == <<"u","3",".","h","t","m">>

wab == <<"a","b">>

wcd == <<"c","d">>

wef == <<"e","f">>

\* titles and locations passed to the store functions
Titles == {tA, ta}

Urls == {U1, U2}

\* word lists passed to insert_or_update_book: the same pairs in two
\* orders, a disjoint list, the empty list and a list that repeats a word
F1 == << <<wab, 1>>, <<wcd, 2>> >>

F2 == << <<wcd, 2>>, <<wab, 1>> >>

F3 == << <<wef, 1>> >>

FDup == << <<wab, 1>>, <<wab, 2>> >>

FreqLists == {F1, F2, F3, FDup, <<>>}

\* the title and the lists two concurrent writers choose from
ConcTitles == {tA}

ConcLists == {F1, F3}

\* texts a location can serve
XA0 == <<"a">>

XA2 == <<"t","i","t","l","e",":"," ","A","\n","d","e">>

\* a text of eleven different words
XMany ==
    <<"A","\n","a","b"," ","a","c"," ","a","d"," ","a","e"," ","a","f"," ",
      "a","g"," ","a","h"," ","a","i"," ","a","j"," ","a","k"," ","a","l">>

Texts == {XA0, XA2, XMany}

\* what the user can type in the title entry and in the URL entry
TitleInputs == {tA, <<" ","b"," ">>, <<" ">>}

UrlInputs == {U1, <<" ">>}

LabelPlain == <<"t","e","x","t","/","p","l","a","i","n">>

LabelPlainUtf8 ==
    <<"t","e","x","t","/","p","l","a","i","n",";"," ",
      "c","h","a","r","s","e","t","=","u","t","f","-","8">>

LabelHtml == <<"t","e","x","t","/","h","t","m","l">>

DotTxt == <<".","t","x","t">>

\* catalog answers: the "results" list, each result reduced to its
\* "formats" mapping, a list of <<label, location>> in iteration order
Responses == {
    <<>>,
    << << <<LabelHtml, U3>> >> >>,
    << << <<LabelPlainUtf8, U2>>, <<LabelPlain, U1>> >> >>,
    << << <<LabelHtml, U3>>, <<LabelPlainUtf8, U2>> >>,
       << <<LabelPlain, U1>> >> >> }

\* the selection of search_gutenberg_by_title on a decoded answer; the
\* empty string stands for None (both are falsy in the caller's test)
NoUrl == <<>>

\* a selection that takes the first format whatever its label
search_first_format(title, results) ==
    IF title = <<>> THEN NoUrl
    ELSE IF results = <<>> THEN NoUrl
    ELSE IF results[1] = <<>> THEN NoUrl
    ELSE results[1][1][2]

\* a selection without the preference for .txt: the first text/plain
search_any_plain(title, results) ==
    IF title = <<>> THEN NoUrl
    ELSE IF results = <<>> THEN NoUrl
    ELSE LET formats == results[1]
             plain == { i \in DOMAIN formats :
                          Contains(formats[i][1], LabelPlain) }
             Min(S) == CHOOSE i \in S : \A j \in S : i <= j
         IN  IF plain # {} THEN formats[Min(plain)][2]
             ELSE NoUrl

search_gutenberg_by_title(title, results) ==
    IF title = <<>> THEN NoUrl
    ELSE IF results = <<>> THEN NoUrl
    ELSE LET formats == results[1]
             txt   == { i \in DOMAIN formats :
                          /\ Contains(formats[i][1], LabelPlain)
                          /\ EndsWith(formats[i][2], DotTxt) }
             plain == { i \in DOMAIN formats :
                          Contains(formats[i][1], LabelPlain) }
             Min(S) == CHOOSE i \in S : \A j \in S : i <= j
         IN  IF txt # {} THEN formats[Min(txt)][2]
             ELSE IF plain # {} THEN formats[Min(plain)][2]
             ELSE NoUrl

(***************************************************************************)
(* State                                                                   *)
(***************************************************************************)
Procs == {"p1", "p2"}

\* cap on the AUTOINCREMENT counter of table books
MaxSeq == 2

VARIABLES
    books,       \* table books: rows [id, title, url], committed
    word_freqs,  \* table word_freqs: rows [book_id, word, frequency], committed
    seq,         \* sqlite_sequence of books: the largest id handed out
    pc,          \* control point of each process
    call,        \* the running (or last finished) call: [kind, input], the
                 \* input being the title or the location it was given
    loc,         \* locals of the caller: [book, word_freqs, text_url]
    ins,         \* frame of insert_or_update_book: [title, url, word_freqs, book_id]
    res,         \* what the call reported: [outcome, title]
    tree,        \* rows shown in the results Treeview
    last,        \* history: the call finished before the current one
    pre,         \* history: Book `title` as it was when insert_or_update_book began
    watch,       \* history: the insert_or_update_book in flight when a read began
    cnt,         \* history: catalog queries, fetches and commits of this call
    log,         \* history: the arguments of the calls that wrote a Book row
    fn           \* a function of text_utils.py applied to an input

vars == <<books, word_freqs, seq, pc, call, loc, ins, res, tree, last, pre,
          watch, cnt, log, fn>>

storeVars == <<books, word_freqs, seq, log>>

NoBook == [id |-> 0, title |-> <<>>, url |-> <<>>]

NoCall == [kind |-> "none", input |-> <<>>]

NoLoc == [book |-> NoBook, word_freqs |-> <<>>, text_url |-> NoUrl,
          answered |-> FALSE, results |-> <<>>]

NoIns == [title |-> <<>>, url |-> <<>>, word_freqs |-> <<>>, book_id |-> 0]

NoRes == [outcome |-> "none", title |-> <<>>]

NoPre == [book |-> NoBook, rows |-> {}]

NoWatch == [w |-> "none", ins |-> NoIns, pre |-> NoPre]

NoCnt == [queries |-> 0, fetches |-> 0, commits |-> 0]

NoLast ==
    [kind |-> "none", input |-> <<>>, outcome |-> "none", title |-> <<>>,
     tree |-> <<>>]

NoFn == [text |-> <<>>, n |-> 0, out |-> <<>>, done |-> FALSE]

\* the processes before their first call
Idle ==
    /\ pc = [p \in Procs |-> "idle"]
    /\ call = [p \in Procs |-> NoCall]
    /\ loc = [p \in Procs |-> NoLoc]
    /\ ins = [p \in Procs |-> NoIns]
    /\ res = [p \in Procs |-> NoRes]
    /\ tree = [p \in Procs |-> <<>>]
    /\ last = [p \in Procs |-> NoLast]
    /\ pre = [p \in Procs |-> NoPre]
    /\ watch = [p \in Procs |-> NoWatch]
    /\ cnt = [p \in Procs |-> NoCnt]

\* init_db on an absent books.db: both tables empty
EmptyStore ==
    /\ books = {}
    /\ word_freqs = {}
    /\ seq = 0
    /\ log = {}

Init == EmptyStore /\ Idle /\ fn = NoFn

(***************************************************************************)
(* db_utils.py: the queries                                                *)
(***************************************************************************)
\* a SELECT without the WHERE clause: the first Book of the table
SelectBookByTitle_Any(bs, title) ==
    IF bs = {} THEN NoBook
    ELSE CHOOSE b \in bs : \A c \in bs : b.id <= c.id

\* SELECT id, title, url FROM books WHERE LOWER(title) = LOWER(?), fetchone():
\* the scan is in rowid order, so the row of least id among the matches
SelectBookByTitle(bs, title) ==
    LET m == { b \in bs : Lower(b.title) = Lower(title) }
    IN  IF m = {} THEN NoBook
        ELSE CHOOSE b \in m : \A c \in m : b.id <= c.id

get_book_by_title(title) == SelectBookByTitle(books, title)

\* the row r comes before the row s under ORDER BY frequency DESC, word ASC
RowBefore(r, s) ==
    \/ r.frequency > s.frequency
    \/ r.frequency = s.frequency /\ StrLess(r.word, s.word)

RECURSIVE OrderBy(_)
OrderBy(rows) ==
    IF rows = {} THEN <<>>
    ELSE LET m == CHOOSE r \in rows : \A s \in rows \ {r} : RowBefore(r, s)
         IN  << <<m.word, m.frequency>> >> \o OrderBy(rows \ {m})

RowsOf(wf, book_id) == { r \in wf : r.book_id = book_id }

\* SELECT word, frequency FROM word_freqs WHERE book_id = ? ORDER BY ...
SelectWordFrequencies(wf, book_id) == OrderBy(RowsOf(wf, book_id))

get_word_frequencies(book_id) == SelectWordFrequencies(word_freqs, book_id)

\* SELECT id FROM books WHERE title = ? : exact, case-sensitive match
SelectIdByTitle(bs, title) ==
    LET m == { b \in bs : b.title = title }
    IN  IF m = {} THEN 0 ELSE (CHOOSE b \in m : TRUE).id

\* the conflict target of ON CONFLICT(title): the UNIQUE index on title,
\* which compares with the BINARY collation
Conflicts(b, title) == b.title = title

\* INSERT INTO books (title, url) VALUES (?, ?)
\*   ON CONFLICT(title) DO UPDATE SET url = excluded.url
\* an INSERT OR REPLACE: a Book that exists is deleted and inserted anew
UpsertBookRow_Replace(bs, id, title, url) ==
    { b \in bs : ~Conflicts(b, title) }
        \cup { [id |-> id, title |-> title, url |-> url] }

\* an INSERT OR IGNORE: a Book that exists keeps its old location
UpsertBookRow_Ignore(bs, id, title, url) ==
    IF \E b \in bs : Conflicts(b, title)
    THEN bs
    ELSE bs \cup { [id |-> id, title |-> title, url |-> url] }

UpsertBookRow(bs, id, title, url) ==
    IF \E b \in bs : Conflicts(b, title)
    THEN { IF Conflicts(b, title) THEN [b EXCEPT !.url = url] ELSE b : b \in bs }
    ELSE bs \cup { [id |-> id, title |-> title, url |-> url] }

\* a replacement that forgets the DELETE and so merges old and new rows
DeleteFreqs_Skipped(wf, book_id) == wf

\* DELETE FROM word_freqs WHERE book_id = ?
DeleteFreqs(wf, book_id) == { r \in wf : r.book_id # book_id }

\* executemany(INSERT INTO word_freqs ...) of a list without repeated words
InsertFreqs(wf, book_id, list) ==
    wf \cup { [book_id |-> book_id, word |-> list[i][1], frequency |-> list[i][2]]
              : i \in DOMAIN list }

\* UNIQUE(book_id, word) rejects a list that repeats a word
HasRepeatedWord(list) ==
    \E i, j \in DOMAIN list : i # j /\ list[i][1] = list[j][1]

(***************************************************************************)
(* Calls.  A process is one running program that works on books.db through *)
(* its own connections.  Readers see committed data only, so every         *)
(* transaction is one step that takes effect at its commit.                *)
(***************************************************************************)
\* Book `title` (exact match, as insert_or_update_book addresses it) and
\* its rows
Snapshot(title) ==
    LET m == { b \in books : b.title = title }
        b == IF m = {} THEN NoBook ELSE CHOOSE x \in m : TRUE
    IN  [book |-> b, rows |-> RowsOf(word_freqs, b.id)]

InInsertOrUpdate(p) == pc[p] \in {"insert_book", "select_id", "replace_freqs"}

\* the call that was running moves to the history, if the client keeps one
Begin(p, kind, input, keep) ==
    /\ pc[p] = "idle"
    /\ last' = [last EXCEPT ![p] =
                  IF keep
                  THEN [kind |-> call[p].kind, input |-> call[p].input,
                        outcome |-> res[p].outcome, title |-> res[p].title,
                        tree |-> tree[p]]
                  ELSE NoLast]
    /\ call' = [call EXCEPT ![p] = [kind |-> kind, input |-> input]]
    /\ cnt' = [cnt EXCEPT ![p] = NoCnt]

\* the report of a call that ran to its end
OkOutcome(kind) ==
    CASE kind = "upsert" -> "ok"
      [] kind = "title"  -> "retrieved"
      [] kind = "url"    -> "stored"

\* a handler with one except clause, which reports every exception as a
\* network error
ErrorOutcome_Network(kind) == IF kind = "upsert" THEN "raised" ELSE "network_error"

\* the report of a call that raised something other than RequestException
ErrorOutcome(kind) == IF kind = "upsert" THEN "raised" ELSE "error"

\* a direct call insert_or_update_book(title, url, list)
StartUpsert(p, title, url, list, keep) ==
    /\ seq < MaxSeq
    /\ Begin(p, "upsert", title, keep)
    /\ ins' = [ins EXCEPT ![p] =
                 [title |-> title, url |-> url, word_freqs |-> list, book_id |-> 0]]
    /\ pre' = [pre EXCEPT ![p] = Snapshot(title)]
    /\ loc' = [loc EXCEPT ![p] = NoLoc]
    /\ res' = [res EXCEPT ![p] = NoRes]
    /\ watch' = [watch EXCEPT ![p] = NoWatch]
    /\ pc' = [pc EXCEPT ![p] = "insert_book"]
    /\ UNCHANGED <<storeVars, fn, tree>>

\* a reader: get_book_by_title(title), then get_word_frequencies(id); a
\* client that keeps history remembers the arguments of its last
\* insert_or_update_book in ins
StartRead(p, title, keep) ==
    /\ Begin(p, "read", title, keep)
    /\ watch' = [watch EXCEPT ![p] =
          LET ws == { w \in Procs \ {p} : InInsertOrUpdate(w) /\ ins[w].title = title }
          IN  IF ws = {} THEN NoWatch
              ELSE LET w == CHOOSE x \in ws : TRUE
                   IN  [w |-> w, ins |-> ins[w], pre |-> pre[w]]]
    /\ ins' = [ins EXCEPT ![p] = IF keep THEN @ ELSE NoIns]
    /\ pre' = [pre EXCEPT ![p] = NoPre]
    /\ loc' = [loc EXCEPT ![p] = NoLoc]
    /\ res' = [res EXCEPT ![p] = NoRes]
    /\ pc' = [pc EXCEPT ![p] = "get_book"]
    /\ UNCHANGED <<storeVars, fn, tree>>

\* on_search_title, lines 87-92
StartSearchTitle(p, raw) ==
    LET title == Strip(raw) IN
    /\ Begin(p, "title", title, TRUE)
    /\ ins' = [ins EXCEPT ![p] = NoIns]
    /\ pre' = [pre EXCEPT ![p] = NoPre]
    /\ loc' = [loc EXCEPT ![p] = NoLoc]
    /\ watch' = [watch EXCEPT ![p] = NoWatch]
    /\ IF title = <<>>
       THEN /\ res' = [res EXCEPT ![p] = [outcome |-> "enter_title", title |-> <<>>]]
            /\ UNCHANGED <<pc, tree>>
       ELSE /\ res' = [res EXCEPT ![p] = NoRes]
            /\ tree' = [tree EXCEPT ![p] = <<>>]
            /\ pc' = [pc EXCEPT ![p] = "get_book"]
    /\ UNCHANGED <<storeVars, fn>>

\* on_search_url, lines 132-137
StartSearchUrl(p, raw) ==
    LET url == Strip(raw) IN
    /\ Begin(p, "url", url, TRUE)
    /\ ins' = [ins EXCEPT ![p] = NoIns]
    /\ pre' = [pre EXCEPT ![p] = NoPre]
    /\ watch' = [watch EXCEPT ![p] = NoWatch]
    /\ IF url = <<>>
       THEN /\ res' = [res EXCEPT ![p] = [outcome |-> "enter_url", title |-> <<>>]]
            /\ loc' = [loc EXCEPT ![p] = NoLoc]
            /\ UNCHANGED <<pc, tree>>
       ELSE /\ res' = [res EXCEPT ![p] = NoRes]
            /\ loc' = [loc EXCEPT ![p] = [NoLoc EXCEPT !.text_url = url]]
            /\ tree' = [tree EXCEPT ![p] = <<>>]
            /\ pc' = [pc EXCEPT ![p] = "fetch"]
    /\ UNCHANGED <<storeVars, fn>>

\* the cache test of on_search_title: a miss unless the rows are non-empty
IsHit(book, rows) == book # NoBook /\ rows # <<>>

\* book = get_book_by_title(title); on_search_title lines 96-97
GetBookByTitle(p) ==
    /\ pc[p] = "get_book"
    /\ LET book == get_book_by_title(call[p].input) IN
       /\ loc' = [loc EXCEPT ![p].book = book]
       /\ IF book # NoBook
          THEN /\ pc' = [pc EXCEPT ![p] = "get_freqs"]
               /\ UNCHANGED res
          ELSE IF call[p].kind = "read"
          THEN /\ pc' = [pc EXCEPT ![p] = "idle"]
               /\ res' = [res EXCEPT ![p] = [outcome |-> "absent", title |-> <<>>]]
          ELSE /\ pc' = [pc EXCEPT ![p] = "resolve"]
               /\ UNCHANGED res
    /\ UNCHANGED <<storeVars, fn, call, ins, tree, last, pre, watch, cnt>>

\* word_freqs = get_word_frequencies(book_id); on_search_title lines 98-103
GetWordFrequencies(p) ==
    /\ pc[p] = "get_freqs"
    /\ LET rows == get_word_frequencies(loc[p].book.id) IN
       /\ loc' = [loc EXCEPT ![p].word_freqs = rows]
       /\ IF call[p].kind = "read"
          THEN /\ pc' = [pc EXCEPT ![p] = "idle"]
               /\ res' = [res EXCEPT ![p] = [outcome |-> "read", title |-> loc[p].book.title]]
               /\ UNCHANGED tree
          ELSE IF IsHit(loc[p].book, rows)
          THEN /\ pc' = [pc EXCEPT ![p] = "idle"]
               /\ tree' = [tree EXCEPT ![p] = TakeFirst(rows, TopN)]
               /\ res' = [res EXCEPT ![p] = [outcome |-> "loaded", title |-> loc[p].book.title]]
          ELSE /\ pc' = [pc EXCEPT ![p] = "resolve"]
               /\ UNCHANGED <<res, tree>>
    /\ UNCHANGED <<storeVars, fn, call, ins, last, pre, watch, cnt>>

\* text_url = search_gutenberg_by_title(title) answered; lines 106-110
Resolve(p) ==
    /\ pc[p] = "resolve"
    /\ cnt' = [cnt EXCEPT ![p].queries = @ + 1]
    /\ \E results \in Responses :
         LET text_url == search_gutenberg_by_title(call[p].input, results) IN
         /\ loc' = [loc EXCEPT ![p].text_url = text_url,
                                ![p].answered = TRUE, ![p].results = results]
         /\ IF text_url = NoUrl
            THEN /\ pc' = [pc EXCEPT ![p] = "idle"]
                 /\ res' = [res EXCEPT ![p] = [outcome |-> "not_found", title |-> <<>>]]
            ELSE /\ pc' = [pc EXCEPT ![p] = "fetch"]
                 /\ UNCHANGED res
    /\ UNCHANGED <<storeVars, fn, call, ins, tree, last, pre, watch>>

\* a handler that queries the catalog again when the query failed
ResolveFails_Retries(p) ==
    /\ pc[p] = "resolve"
    /\ cnt' = [cnt EXCEPT ![p].queries = @ + 1]
    /\ UNCHANGED <<storeVars, fn, pc, res, call, loc, ins, tree, last, pre, watch>>

\* search_gutenberg_by_title raises requests.RequestException; lines 121-123
ResolveFails(p) ==
    /\ pc[p] = "resolve"
    /\ cnt' = [cnt EXCEPT ![p].queries = @ + 1]
    /\ pc' = [pc EXCEPT ![p] = "idle"]
    /\ res' = [res EXCEPT ![p] = [outcome |-> "network_error", title |-> <<>>]]
    /\ UNCHANGED <<storeVars, fn, call, loc, ins, tree, last, pre, watch>>

\* fetch_book_text, extract_title, compute_top_words and the call of
\* insert_or_update_book; lines 113-117 and 140-144
Fetch(p) ==
    /\ pc[p] = "fetch"
    /\ cnt' = [cnt EXCEPT ![p].fetches = @ + 1]
    /\ \E text \in Texts :
         LET book_title == extract_title(text)
             top_words  == compute_top_words(text, TopN)
         IN  /\ ins' = [ins EXCEPT ![p] =
                   [title |-> book_title, url |-> loc[p].text_url,
                    word_freqs |-> top_words, book_id |-> 0]]
             /\ pre' = [pre EXCEPT ![p] = Snapshot(book_title)]
    /\ pc' = [pc EXCEPT ![p] = "insert_book"]
    /\ UNCHANGED <<storeVars, fn, call, loc, res, tree, last, watch>>

\* a handler that swallows the failed fetch and persists what it has
FetchFails_Persists(p) ==
    /\ pc[p] = "fetch"
    /\ cnt' = [cnt EXCEPT ![p].fetches = @ + 1]
    /\ ins' = [ins EXCEPT ![p] =
              [title |-> call[p].input, url |-> loc[p].text_url,
               word_freqs |-> <<>>, book_id |-> 0]]
    /\ pre' = [pre EXCEPT ![p] = Snapshot(call[p].input)]
    /\ pc' = [pc EXCEPT ![p] = "insert_book"]
    /\ UNCHANGED <<storeVars, fn, call, loc, res, tree, last, watch>>

\* a handler whose generic clause catches the failed fetch first
FetchFails_Generic(p) ==
    /\ pc[p] = "fetch"
    /\ cnt' = [cnt EXCEPT ![p].fetches = @ + 1]
    /\ pc' = [pc EXCEPT ![p] = "idle"]
    /\ res' = [res EXCEPT ![p] = [outcome |-> "error", title |-> <<>>]]
    /\ UNCHANGED <<storeVars, fn, call, loc, ins, tree, last, pre, watch>>

\* fetch_book_text raises requests.RequestException; lines 121-123, 148-150
FetchFails(p) ==
    /\ pc[p] = "fetch"
    /\ cnt' = [cnt EXCEPT ![p].fetches = @ + 1]
    /\ pc' = [pc EXCEPT ![p] = "idle"]
    /\ res' = [res EXCEPT ![p] = [outcome |-> "network_error", title |-> <<>>]]
    /\ UNCHANGED <<storeVars, fn, call, loc, ins, tree, last, pre, watch>>

\* the end of insert_or_update_book and what its caller does next:
\* lines 118-119 and 145-146 show the computed list
Return(p) ==
    /\ pc' = [pc EXCEPT ![p] = "idle"]
    /\ res' = [res EXCEPT ![p] =
                 [outcome |-> OkOutcome(call[p].kind), title |-> ins[p].title]]
    /\ tree' = [tree EXCEPT ![p] =
                 IF call[p].kind = "upsert" THEN @ ELSE ins[p].word_freqs]

\* insert_or_update_book lines 117-122: the upsert of the Book row, committed
InsertBook(p) ==
    /\ pc[p] = "insert_book"
    /\ seq < MaxSeq
    /\ books' = UpsertBookRow(books, seq + 1, ins[p].title, ins[p].url)
    /\ seq' = seq + 1
    /\ cnt' = [cnt EXCEPT ![p].commits = @ + 1]
    /\ pc' = [pc EXCEPT ![p] = "select_id"]
    /\ log' = log \cup {[title |-> ins[p].title, url |-> ins[p].url,
                          word_freqs |-> ins[p].word_freqs]}
    /\ UNCHANGED <<word_freqs, call, loc, ins, res, tree, last, pre, watch, fn>>

\* insert_or_update_book lines 125-129
SelectId(p) ==
    /\ pc[p] = "select_id"
    /\ LET id == SelectIdByTitle(books, ins[p].title) IN
       IF id = 0
       THEN /\ Return(p)
            /\ UNCHANGED ins
       ELSE /\ ins' = [ins EXCEPT ![p].book_id = id]
            /\ pc' = [pc EXCEPT ![p] = "replace_freqs"]
            /\ UNCHANGED <<res, tree>>
    /\ UNCHANGED <<storeVars, fn, call, loc, last, pre, watch, cnt>>

\* insert_or_update_book lines 132-140: delete, insert, commit
ReplaceFreqs(p) ==
    /\ pc[p] = "replace_freqs"
    /\ ~HasRepeatedWord(ins[p].word_freqs)
    /\ word_freqs' = InsertFreqs(DeleteFreqs(word_freqs, ins[p].book_id),
                                 ins[p].book_id, ins[p].word_freqs)
    /\ cnt' = [cnt EXCEPT ![p].commits = @ + 1]
    /\ Return(p)
    /\ UNCHANGED <<books, seq, log, call, loc, ins, last, pre, watch, fn>>

\* a statement of insert_or_update_book raises sqlite3.Error (a repeated
\* word, a locked or full database): the connection is closed and the open
\* transaction, if any, is rolled back; the handlers report it in lines
\* 124-126 and 151-153
StoreError(p) ==
    /\ pc[p] \in {"insert_book", "replace_freqs"}
    /\ pc' = [pc EXCEPT ![p] = "idle"]
    /\ res' = [res EXCEPT ![p] =
                 [outcome |-> ErrorOutcome(call[p].kind), title |-> <<>>]]
    /\ UNCHANGED <<storeVars, fn, call, loc, ins, tree, last, pre, watch, cnt>>

(***************************************************************************)
(* compute_top_words applied to texts typed one character at a time, and   *)
(* to the example text of the documentation                                *)
(***************************************************************************)
MaxTextLen == 5

TextChars == {"a", "n", "b", "A", " ", "'"}

ExampleText ==
    <<"T","h","e"," ","c","a","t"," ","s","a","t"," ","o","n"," ",
      "t","h","e"," ","m","a","t","."," ","T","h","e"," ","C","a","t"," ",
      "r","a","n",".">>

TopWordsInit ==
    /\ EmptyStore /\ Idle
    /\ fn \in {NoFn, [NoFn EXCEPT !.text = ExampleText]}

TypeChar(c) ==
    /\ ~fn.done
    /\ Len(fn.text) < MaxTextLen
    /\ fn' = [fn EXCEPT !.text = Append(@, c)]
    /\ UNCHANGED <<storeVars, pc, call, loc, ins, res, tree, last, pre, watch, cnt>>

TopWords(n) ==
    /\ ~fn.done
    /\ fn' = [fn EXCEPT !.n = n, !.out = compute_top_words(fn.text, n), !.done = TRUE]
    /\ UNCHANGED <<storeVars, pc, call, loc, ins, res, tree, last, pre, watch, cnt>>

TopWordsNext ==
    \/ \E c \in TextChars : TypeChar(c)
    \/ \E n \in {-1, 0, 1, 2, TopN} : TopWords(n)

TopWordsSpec == TopWordsInit /\ [][TopWordsNext]_vars

(***************************************************************************)
(* search_gutenberg_by_title applied to catalog answers built one result   *)
(* and one format at a time                                                *)
(***************************************************************************)
MaxResults == 2

\* the formats of all results of one answer together
MaxFormats == 3

U4 == <<"u","4",".","t","x","t">>

CatalogLabels == {LabelPlain, LabelPlainUtf8, LabelHtml}

CatalogUrls == {U1, U2, U4}

RECURSIVE CountFormats(_)
CountFormats(results) ==
    IF results = <<>> THEN 0 ELSE Len(Head(results)) + CountFormats(Tail(results))

CatalogInit ==
    /\ EmptyStore /\ Idle
    /\ \E title \in {<<>>, tA} :
         fn = [title |-> title, results |-> <<>>, out |-> NoUrl, done |-> FALSE]

\* the answer gets one more result, without formats so far
AddResult ==
    /\ ~fn.done
    /\ Len(fn.results) < MaxResults
    /\ fn' = [fn EXCEPT !.results = Append(@, <<>>)]
    /\ UNCHANGED <<storeVars, pc, call, loc, ins, res, tree, last, pre, watch, cnt>>

\* the last result gets one more format; the labels of a mapping differ
AddFormat(label, url) ==
    /\ ~fn.done
    /\ fn.results # <<>>
    /\ CountFormats(fn.results) < MaxFormats
    /\ LET k == Len(fn.results) IN
       /\ \A i \in DOMAIN fn.results[k] : fn.results[k][i][1] # label
       /\ fn' = [fn EXCEPT !.results[k] = Append(@, <<label, url>>)]
    /\ UNCHANGED <<storeVars, pc, call, loc, ins, res, tree, last, pre, watch, cnt>>

Search ==
    /\ ~fn.done
    /\ fn' = [fn EXCEPT !.out = search_gutenberg_by_title(fn.title, fn.results),
                        !.done = TRUE]
    /\ UNCHANGED <<storeVars, pc, call, loc, ins, res, tree, last, pre, watch, cnt>>

CatalogNext ==
    \/ AddResult
    \/ \E label \in CatalogLabels, url \in CatalogUrls : AddFormat(label, url)
    \/ Search

CatalogSpec == CatalogInit /\ [][CatalogNext]_vars

(***************************************************************************)
(* extract_title applied to texts typed one piece at a time behind a run   *)
(* of equal lines that ends before, at or after the last line scanned for  *)
(* a title                                                                 *)
(***************************************************************************)
MaxPieces == 4

TitlePieces ==
    { <<"\n">>, <<" ">>, <<"x">>, <<"t","i","T","l","e",":"," ","A">>,
      <<"T","I","T","L","E",":">> }

\* the lines a text can begin with: blank ones or filled ones
PadLines == { <<" ">>, <<"y">> }

PadLengths == {0, TitleScanLines - 1, TitleScanLines}

\* k times the line and its line break
Pad(k, line) ==
    LET unit == line \o <<"\n">>
    IN  [ i \in 1..(k * Len(unit)) |-> unit[((i - 1) % Len(unit)) + 1] ]

TitleInit ==
    /\ EmptyStore /\ Idle
    /\ \E k \in PadLengths, line \in PadLines :
         fn = [text |-> Pad(k, line), pieces |-> 0, out |-> <<>>, done |-> FALSE]

TypePiece(piece) ==
    /\ ~fn.done
    /\ fn.pieces < MaxPieces
    /\ fn' = [fn EXCEPT !.text = @ \o piece, !.pieces = @ + 1]
    /\ UNCHANGED <<storeVars, pc, call, loc, ins, res, tree, last, pre, watch, cnt>>

ExtractTitle ==
    /\ ~fn.done
    /\ fn' = [fn EXCEPT !.out = extract_title(fn.text), !.done = TRUE]
    /\ UNCHANGED <<storeVars, pc, call, loc, ins, res, tree, last, pre, watch, cnt>>

TitleNext ==
    \/ \E piece \in TitlePieces : TypePiece(piece)
    \/ ExtractTitle

TitleSpec == TitleInit /\ [][TitleNext]_vars

(***************************************************************************)
(* Specifications                                                          *)
(***************************************************************************)
\* the steps of insert_or_update_book and of the two queries
StoreStep(p) ==
    \/ GetBookByTitle(p)
    \/ GetWordFrequencies(p)
    \/ InsertBook(p)
    \/ SelectId(p)
    \/ ReplaceFreqs(p)
    \/ StoreError(p)

\* the program: one GUI, whose handlers run one at a time
Next ==
    \/ \E raw \in TitleInputs : StartSearchTitle("p1", raw)
    \/ \E raw \in UrlInputs : StartSearchUrl("p1", raw)
    \/ Resolve("p1")
    \/ ResolveFails("p1")
    \/ Fetch("p1")
    \/ FetchFails("p1")
    \/ StoreStep("p1")

Spec == Init /\ [][Next]_vars

\* one client of db_utils.py calling its functions one after the other
StoreNext ==
    \/ \E t \in Titles, u \in Urls, f \in FreqLists : StartUpsert("p1", t, u, f, TRUE)
    \/ \E t \in Titles : StartRead("p1", t, TRUE)
    \/ StoreStep("p1")

StoreSpec == Init /\ [][StoreNext]_vars

\* two clients of db_utils.py on the same books.db
ConcNext ==
    \E p \in Procs :
        \/ \E t \in ConcTitles, u \in Urls, f \in ConcLists : StartUpsert(p, t, u, f, FALSE)
        \/ \E t \in ConcTitles : StartRead(p, t, FALSE)
        \/ StoreStep(p)

ConcSpec == Init /\ [][ConcNext]_vars

(***************************************************************************)
(* Properties                                                              *)
(***************************************************************************)
Words(list) == { list[i][1] : i \in DOMAIN list }

Pairs(rows) == { <<r.word, r.frequency>> : r \in rows }

\* a list is in the documented order: count descending, then word ascending
InRankOrder(list) ==
    \A i, j \in DOMAIN list :
        i < j => \/ list[i][2] > list[j][2]
                 \/ list[i][2] = list[j][2] /\ StrLess(list[i][1], list[j][1])

\* list is exactly the pairs of given, in the documented order
IsRanked(list, given) ==
    /\ Range(list) = Range(given)
    /\ Len(list) = Cardinality(Range(given))
    /\ InRankOrder(list)

\* C1: while insert_or_update_book(T, newUrl, newFreqs) runs on a store that
\* holds Book T with (oldUrl, oldFreqs), a reader that calls
\* get_book_by_title(T) and then get_word_frequencies(id) sees
\* (oldUrl, oldFreqs) or (newUrl, newFreqs), never a mix and never a Book
\* without rows.
C1_ReaderSeesOldOrNew ==
    \A r \in Procs :
        ( /\ pc[r] = "idle"
          /\ call[r].kind = "read"
          /\ res[r].outcome \in {"read", "absent"}
          /\ watch[r].w # "none"
          /\ ins[watch[r].w].title = watch[r].ins.title
          /\ ins[watch[r].w].url = watch[r].ins.url
          /\ ins[watch[r].w].word_freqs = watch[r].ins.word_freqs
          /\ pre[watch[r].w] = watch[r].pre
          /\ watch[r].pre.book # NoBook
          /\ watch[r].pre.rows # {} )
        => /\ res[r].outcome = "read"
           /\ \/ /\ loc[r].book.url = watch[r].pre.book.url
                 /\ IsRanked(loc[r].word_freqs, OrderBy(watch[r].pre.rows))
              \/ /\ loc[r].book.url = watch[r].ins.url
                 /\ IsRanked(loc[r].word_freqs, watch[r].ins.word_freqs)

\* C2: if insert_or_update_book fails after it wrote the Book row and before
\* it committed the replacement rows, the store is as it was before the
\* call: no new Book row, the same source location, the same rows.
C2_FailureLeavesStoreUnchanged ==
    \A p \in Procs :
        ( /\ pc[p] = "idle"
          /\ call[p].kind = "upsert"
          /\ res[p].outcome = "raised"
          /\ cnt[p].commits >= 1 )
        => Snapshot(ins[p].title) = pre[p]

\* C3: in every committed state the rows of each Book are exactly the word
\* list of one single insert_or_update_book call, and the Book's source
\* location is the one of that same call.
C3_RowsAndUrlOfOneCall ==
    \A b \in books :
        \E c \in log :
            /\ c.title = b.title
            /\ c.url = b.url
            /\ Pairs(RowsOf(word_freqs, b.id)) = Range(c.word_freqs)

\* C4: the store holds at most one Book per case-insensitive title.
C4_OneBookPerNormalizedTitle ==
    \A b1, b2 \in books : Lower(b1.title) = Lower(b2.title) => b1 = b2

\* C5: insert_or_update_book(title, loc, freqs) with a duplicate-free list,
\* followed immediately by get_book_by_title(title) and get_word_frequencies
\* on the returned id, yields exactly the pairs of freqs, ordered by count
\* descending then word ascending, also when a Book whose title differs only
\* in letter case is already stored.
C5_RoundTrip ==
    \A p \in Procs :
        ( /\ pc[p] = "idle"
          /\ call[p].kind = "read"
          /\ last[p].kind = "upsert"
          /\ last[p].outcome = "ok"
          /\ call[p].input = ins[p].title )
        => /\ res[p].outcome = "read"
           /\ IsRanked(loc[p].word_freqs, ins[p].word_freqs)

\* C6: two calls of insert_or_update_book for the same title with disjoint
\* word sets leave only the words of the second call queryable through
\* get_word_frequencies for that Book.
C6_ReplaceNeverMerges ==
    \A p \in Procs :
        ( /\ pc[p] = "idle"
          /\ call[p].kind = "upsert"
          /\ res[p].outcome = "ok"
          /\ last[p].kind = "upsert"
          /\ last[p].outcome = "ok"
          /\ last[p].input = ins[p].title
          /\ Words(OrderBy(pre[p].rows)) \cap Words(ins[p].word_freqs) = {} )
        => LET now == get_word_frequencies(SelectIdByTitle(books, ins[p].title))
           IN  /\ Words(now) = Words(ins[p].word_freqs)
               /\ Words(now) \cap Words(OrderBy(pre[p].rows)) = {}

\* C6 witness: a second call has replaced a non-empty first list by a
\* non-empty disjoint one
C6_Witness ==
    \E p \in Procs :
        /\ pc[p] = "idle"
        /\ call[p].kind = "upsert"
        /\ res[p].outcome = "ok"
        /\ last[p].kind = "upsert"
        /\ last[p].outcome = "ok"
        /\ last[p].input = ins[p].title
        /\ pre[p].rows # {}
        /\ ins[p].word_freqs # <<>>
        /\ Words(OrderBy(pre[p].rows)) \cap Words(ins[p].word_freqs) = {}

\* C7: when the by-title entry point runs twice in succession with the same
\* title and the second run is served from the cache, the list it shows is
\* the list the first run computed and showed, pair by pair in order.
C7_CachedListIsFreshList ==
    \A p \in Procs :
        ( /\ pc[p] = "idle"
          /\ call[p].kind = "title"
          /\ res[p].outcome = "loaded"
          /\ last[p].kind = "title"
          /\ last[p].outcome = "retrieved"
          /\ last[p].input = call[p].input )
        => tree[p] = last[p].tree

ExampleTopWords ==
    << << <<"c","a","t">>, 2 >>, << <<"m","a","t">>, 1 >>,
       << <<"r","a","n">>, 1 >>, << <<"s","a","t">>, 1 >> >>

\* C8: compute_top_words(text, n) returns at most n entries (none when
\* n <= 0), each with a count of at least 1, none a stopword or a token of
\* length <= 1, ordered by count descending and then by word ascending; the
\* example text with n = 10 yields cat 2, mat 1, ran 1, sat 1.
C8_TopWordsContract ==
    fn.done =>
        /\ Len(fn.out) <= (IF fn.n <= 0 THEN 0 ELSE fn.n)
        /\ \A i \in DOMAIN fn.out :
              /\ fn.out[i][2] >= 1
              /\ fn.out[i][1] \notin STOPWORDS
              /\ Len(fn.out[i][1]) > 1
        /\ InRankOrder(fn.out)
        /\ (fn.text = ExampleText /\ fn.n = TopN) => fn.out = ExampleTopWords

\* some stored Book matches the title case-insensitively and has rows
Cached(title) ==
    \E b \in books :
        /\ Lower(b.title) = Lower(title)
        /\ RowsOf(word_freqs, b.id) # {}

\* C9: a by-title lookup is served from the cache, with no catalog query and
\* no fetch, if and only if a Book matching the title case-insensitively
\* exists and has at least one row; otherwise it goes on to resolve.
C9_HitIffBookWithRows ==
    [][ \A p \in Procs :
          ( /\ call[p].kind = "title"
            /\ pc[p] \in {"get_book", "get_freqs"}
            /\ pc'[p] \in {"idle", "resolve"} )
          => IF Cached(call[p].input)
             THEN /\ pc'[p] = "idle"
                  /\ res'[p].outcome = "loaded"
                  /\ cnt'[p].queries = 0
                  /\ cnt'[p].fetches = 0
             ELSE pc'[p] = "resolve" ]_vars

\* a catalog answer without results, or whose first result offers no format
\* labelled text/plain
NoTextPlain(results) ==
    \/ results = <<>>
    \/ \A i \in DOMAIN results[1] : ~Contains(results[1][i][1], LabelPlain)

\* C10: when a by-title lookup misses the cache and the catalog answers
\* without results or without a text/plain format, the lookup ends as "not
\* found", fetches nothing and leaves the store as it was.
C10_NotFoundIsClean ==
    [][ \A p \in Procs :
          ( /\ call[p].kind = "title"
            /\ pc[p] = "resolve"
            /\ loc'[p].answered
            /\ NoTextPlain(loc'[p].results) )
          => /\ pc'[p] = "idle"
             /\ res'[p].outcome = "not_found"
             /\ cnt'[p].fetches = 0
             /\ cnt'[p].commits = 0
             /\ UNCHANGED <<books, word_freqs, seq>> ]_vars

\* C10 witness: a lookup ended as "not found" on an answer that has a result
\* but no text/plain format, with Books in the store
C10_Witness ==
    \E p \in Procs :
        /\ pc[p] = "idle"
        /\ call[p].kind = "title"
        /\ res[p].outcome = "not_found"
        /\ loc[p].answered
        /\ loc[p].results # <<>>
        /\ NoTextPlain(loc[p].results)
        /\ books # {}

\* C11: when the text fetch fails in either entry point, the lookup ends
\* with the network-error outcome and every Book and every row of the store
\* is unchanged, a cached entry for that title included.
C11_FetchFailureKeepsStore ==
    [][ \A p \in Procs :
          ( /\ call[p].kind \in {"title", "url"}
            /\ pc[p] = "fetch"
            /\ pc'[p] # "insert_book" )
          => /\ pc'[p] = "idle"
             /\ res'[p].outcome = "network_error"
             /\ cnt'[p].commits = 0
             /\ UNCHANGED <<books, word_freqs, seq>> ]_vars

\* C11 witness: a by-title lookup ended on a failed fetch while a Book of
\* that title is stored
C11_Witness ==
    \E p \in Procs :
        /\ pc[p] = "idle"
        /\ call[p].kind = "title"
        /\ res[p].outcome = "network_error"
        /\ cnt[p].fetches = 1
        /\ \E b \in books : Lower(b.title) = Lower(call[p].input)

\* C12: a by-location lookup never reads the cache and never queries the
\* catalog; it fetches the text once, and when it succeeds the Book whose
\* title was derived from the text holds the given location and exactly
\* the freshly computed list, also when that Book was stored before.
C12_ByLocationAlwaysRefreshes ==
    \A p \in Procs :
        (call[p].kind = "url" /\ call[p].input # <<>>)
        => /\ pc[p] \notin {"get_book", "get_freqs", "resolve"}
           /\ cnt[p].queries = 0
           /\ loc[p].book = NoBook
           /\ ~loc[p].answered
           /\ pc[p] = "idle" => cnt[p].fetches = 1
           /\ (pc[p] = "idle" /\ res[p].outcome = "stored")
              => /\ \E t \in Texts : /\ ins[p].title = extract_title(t)
                                     /\ ins[p].word_freqs = compute_top_words(t, TopN)
                 /\ Snapshot(ins[p].title).book # NoBook
                 /\ Snapshot(ins[p].title).book.url = call[p].input
                 /\ Pairs(Snapshot(ins[p].title).rows) = Range(ins[p].word_freqs)
                 /\ tree[p] = ins[p].word_freqs

\* C12 witness: a by-location lookup succeeded on a Book that was cached
\* with another location and other rows
C12_Witness ==
    \E p \in Procs :
        /\ pc[p] = "idle"
        /\ call[p].kind = "url"
        /\ res[p].outcome = "stored"
        /\ pre[p].book # NoBook
        /\ pre[p].book.url # call[p].input
        /\ pre[p].rows # {}
        /\ Pairs(pre[p].rows) # Range(ins[p].word_freqs)

\* the title and the list some text of the world yields under the analysis
\* of the handlers
Analysed(title, list) ==
    \E t \in Texts : title = extract_title(t) /\ list = compute_top_words(t, TopN)

\* C13: in both entry points, on a cache hit and after a fetch, the list
\* handed to the presentation has at most ten entries and the title
\* reported is the canonical one: the stored title of the Book that was hit,
\* or the title derived from the fetched text.
C13_AtMostTenUnderCanonicalTitle ==
    \A p \in Procs :
        /\ Len(tree[p]) <= TopN
        /\ (pc[p] = "idle" /\ res[p].outcome = "loaded")
           => /\ call[p].kind = "title"
              /\ \E b \in books : /\ b.title = res[p].title
                                  /\ Lower(b.title) = Lower(call[p].input)
                                  /\ tree[p] = TakeFirst(get_word_frequencies(b.id), TopN)
        /\ (pc[p] = "idle" /\ res[p].outcome \in {"retrieved", "stored"})
           => /\ call[p].kind = (IF res[p].outcome = "stored" THEN "url" ELSE "title")
              /\ Analysed(res[p].title, tree[p])

\* C13 witness: a lookup fetched a text of more than ten different words and
\* showed ten of them under the title of that text
C13_Witness ==
    \E p \in Procs :
        /\ pc[p] = "idle"
        /\ res[p].outcome \in {"retrieved", "stored"}
        /\ Len(tree[p]) = TopN
        /\ res[p].title = extract_title(XMany)
        /\ Len(FindAll(Lower(XMany), <<>>)) > TopN + 1

\* the order of the by-title pipeline: the cache check, the catalog query,
\* the fetch with its analysis, the two transactions of the store call; from
\* every step the handler may also end
PipelineOrder ==
    { <<"idle", "get_book">>, <<"get_book", "get_freqs">>,
      <<"get_book", "resolve">>, <<"get_freqs", "resolve">>,
      <<"resolve", "fetch">>, <<"fetch", "insert_book">>,
      <<"insert_book", "select_id">>, <<"select_id", "replace_freqs">> }
    \cup { <<s, "idle">> : s \in {"get_freqs", "resolve", "fetch", "insert_book",
                                   "select_id", "replace_freqs"} }

\* C14: a by-title lookup takes its steps only in the order cache check,
\* resolving, fetching, analysing, persisting; insert_or_update_book is
\* entered only after the catalog query, the fetch and the analysis of this
\* same lookup succeeded, and at most once per lookup.
C14_PipelineInOrder ==
    [][ \A p \in Procs :
          call'[p].kind = "title"
          => /\ pc'[p] # pc[p] => <<pc[p], pc'[p]>> \in PipelineOrder
             /\ pc'[p] \in {"insert_book", "select_id", "replace_freqs"}
                => /\ loc'[p].book = NoBook \/ loc'[p].word_freqs = <<>>
                   /\ cnt'[p].queries = 1
                   /\ loc'[p].answered
                   /\ loc'[p].text_url # NoUrl
                   /\ cnt'[p].fetches = 1
                   /\ ins'[p].url = loc'[p].text_url
                   /\ Analysed(ins'[p].title, ins'[p].word_freqs)
             /\ (pc'[p] = "insert_book" /\ pc[p] # "insert_book")
                => pc[p] = "fetch" /\ cnt[p].commits = 0
             /\ cnt'[p].commits <= 2 ]_vars

\* C14 witness: a by-title lookup went through every step and ended
C14_Witness ==
    \E p \in Procs :
        /\ call[p].kind = "title"
        /\ pc[p] = "idle"
        /\ res[p].outcome = "retrieved"
        /\ loc[p].book # NoBook
        /\ cnt[p] = [queries |-> 1, fetches |-> 1, commits |-> 2]

\* C15: a by-title lookup that missed the cache and succeeded wrote the
\* Book under the title derived from the fetched text, not under the typed
\* title; so the same input typed again hits the cache only if it equals the
\* derived title up to letter case, and otherwise the catalog is queried
\* and the text fetched again.
C15_CachedUnderDerivedTitle ==
    \A p \in Procs :
        /\ (call[p].kind = "title" /\ pc[p] = "idle" /\ res[p].outcome = "retrieved")
           => /\ Analysed(res[p].title, tree[p])
              /\ Snapshot(res[p].title).book # NoBook
              /\ Pairs(Snapshot(res[p].title).rows) = Range(tree[p])
        /\ ( /\ call[p].kind = "title"
             /\ last[p].kind = "title"
             /\ last[p].outcome = "retrieved"
             /\ last[p].input = call[p].input
             /\ pc[p] = "idle" )
           => /\ res[p].outcome = "loaded"
                 => Lower(call[p].input) = Lower(last[p].title)
              /\ Lower(call[p].input) # Lower(last[p].title)
                 => /\ cnt[p].queries = 1
                    /\ loc[p].text_url # NoUrl => cnt[p].fetches = 1

\* C15 witness: the typed title differs from the title of the text, and the
\* same input typed again missed the cache and was fetched again
C15_Witness ==
    \E p \in Procs :
        /\ call[p].kind = "title"
        /\ last[p].kind = "title"
        /\ last[p].outcome = "retrieved"
        /\ last[p].input = call[p].input
        /\ Lower(call[p].input) # Lower(last[p].title)
        /\ Snapshot(last[p].title).rows # {}
        /\ pc[p] = "idle"
        /\ res[p].outcome = "retrieved"

\* the Book a row belongs to, in a table of Books
OwnerTitles(bs, r) == { b.title : b \in { c \in bs : c.id = r.book_id } }

\* C16: insert_or_update_book(T, url, list) changes nothing but Book T:
\* every Book of another title and every row of such a Book stay as they
\* are, and a Book T that exists keeps its id and its stored title; only its
\* location and its rows are overwritten.
C16_OnlyBookTChanges ==
    [][ \A p \in Procs :
          InInsertOrUpdate(p)
          => LET T == ins[p].title IN
             /\ \A b \in books : b.title # T => b \in books'
             /\ \A b \in books' : b.title # T => b \in books
             /\ \A r \in word_freqs : OwnerTitles(books, r) # {T} => r \in word_freqs'
             /\ \A r \in word_freqs' \ word_freqs : OwnerTitles(books', r) = {T}
             /\ \A b \in books :
                  b.title = T => \E c \in books' : c.id = b.id /\ c.title = b.title
             /\ Cardinality({ b \in books' : b.title = T }) <= 1 ]_vars

\* C16 witness: a call wrote Book T and its rows while a Book of another
\* title with rows of its own is stored
C16_Witness ==
    \E p \in Procs :
        /\ call[p].kind = "upsert"
        /\ pc[p] = "idle"
        /\ res[p].outcome = "ok"
        /\ Snapshot(ins[p].title).rows # {}
        /\ \E b \in books : b.title # ins[p].title /\ RowsOf(word_freqs, b.id) # {}

\* the outcomes that report a failure
FailureOutcomes == {"not_found", "network_error", "error"}

\* C17: within one lookup the catalog is queried at most once and the text
\* is fetched at most once; a failed query or a failed fetch ends the lookup
\* at once in a failure outcome, without a retry.
C17_NoRetry ==
    [][ \A p \in Procs :
          call'[p].kind \in {"title", "url"}
          => /\ cnt'[p].queries <= 1
             /\ cnt'[p].fetches <= 1
             /\ cnt'[p].queries > cnt[p].queries
                => /\ pc[p] = "resolve"
                   /\ cnt[p].queries = 0
                   /\ pc'[p] = "fetch" \/ (pc'[p] = "idle" /\ res'[p].outcome \in FailureOutcomes)
                   /\ ~loc'[p].answered
                      => pc'[p] = "idle" /\ res'[p].outcome = "network_error"
             /\ cnt'[p].fetches > cnt[p].fetches
                => /\ pc[p] = "fetch"
                   /\ cnt[p].fetches = 0
                   /\ pc'[p] = "insert_book"
                      \/ (pc'[p] = "idle" /\ res'[p].outcome = "network_error")
             /\ (pc[p] \in {"resolve", "fetch"} /\ call'[p] = call[p])
                => pc'[p] # pc[p] ]_vars

\* C17 witness: a lookup ended on a failed catalog query after that one
\* query, with nothing fetched
C17_Witness ==
    \E p \in Procs :
        /\ call[p].kind = "title"
        /\ pc[p] = "idle"
        /\ res[p].outcome = "network_error"
        /\ ~loc[p].answered
        /\ cnt[p] = [queries |-> 1, fetches |-> 0, commits |-> 0]

\* C18: every failure of a lookup is reported as exactly one of three
\* outcomes: not-found when the catalog answered without a location, network
\* error when the catalog query or the fetch raised a transport error, the
\* generic error for any other failure; an error of the store is never
\* reported as a network error or as not-found.
C18_ThreeFailureOutcomes ==
    [][ \A p \in Procs :
          call'[p].kind \in {"title", "url"}
          => /\ (pc[p] = "resolve" /\ pc'[p] = "idle")
                => res'[p].outcome = (IF loc'[p].answered THEN "not_found"
                                                           ELSE "network_error")
             /\ (pc[p] = "fetch" /\ pc'[p] = "idle")
                => res'[p].outcome = "network_error"
             /\ (pc[p] \in {"insert_book", "replace_freqs"}
                   /\ pc'[p] = "idle" /\ cnt'[p].commits = cnt[p].commits)
                => res'[p].outcome = "error"
             /\ (res'[p].outcome # res[p].outcome /\ res'[p].outcome \in FailureOutcomes)
                => /\ pc'[p] = "idle"
                   /\ tree'[p] = <<>>
                   /\ res'[p].outcome = "not_found"
                      => pc[p] = "resolve" /\ loc'[p].answered /\ loc'[p].text_url = NoUrl
                   /\ res'[p].outcome = "network_error"
                      => \/ pc[p] = "resolve" /\ ~loc'[p].answered
                         \/ pc[p] = "fetch"
                   /\ res'[p].outcome = "error"
                      => pc[p] \in {"insert_book", "replace_freqs"} ]_vars

\* C18 witness: the store rejected the rows of a fetched text and the
\* lookup reported the generic error
C18_Witness ==
    \E p \in Procs :
        /\ call[p].kind \in {"title", "url"}
        /\ pc[p] = "idle"
        /\ res[p].outcome = "error"
        /\ cnt[p].fetches = 1
        /\ cnt[p].commits = 1

\* C19: search_gutenberg_by_title looks at the first result only and
\* returns, in the order of its formats, the first location whose label
\* contains "text/plain" and which ends in ".txt"; without one, the first
\* whose label contains "text/plain"; without one, or without results, or
\* for an empty title, not-found.
C19_FirstPlainTextOfFirstResult ==
    fn.done =>
        LET formats  == IF fn.results = <<>> THEN <<>> ELSE fn.results[1]
            Plain(i) == Contains(formats[i][1], LabelPlain)
            Txt(i)   == Plain(i) /\ EndsWith(formats[i][2], DotTxt)
        IN  IF fn.title = <<>> \/ fn.results = <<>> THEN fn.out = NoUrl
            ELSE IF \E i \in DOMAIN formats : Txt(i)
            THEN \E i \in DOMAIN formats :
                    /\ Txt(i)
                    /\ \A j \in 1..(i - 1) : ~Txt(j)
                    /\ fn.out = formats[i][2]
            ELSE IF \E i \in DOMAIN formats : Plain(i)
            THEN \E i \in DOMAIN formats :
                    /\ Plain(i)
                    /\ \A j \in 1..(i - 1) : ~Plain(j)
                    /\ fn.out = formats[i][2]
            ELSE fn.out = NoUrl

\* C19 witness: the first result lists a text/plain format that is not a
\* .txt before one that is, a second result follows, and the .txt location
\* was returned
C19_Witness ==
    /\ fn.done
    /\ fn.title # <<>>
    /\ Len(fn.results) = 2
    /\ Len(fn.results[1]) >= 2
    /\ fn.results[2] # <<>>
    /\ Contains(fn.results[1][1][1], LabelPlain)
    /\ ~EndsWith(fn.results[1][1][2], DotTxt)
    /\ EndsWith(fn.out, DotTxt)
    /\ fn.out # fn.results[2][1][2]

\* a line that, trimmed, begins with "title:" in any letter case
IsTitleLine(line) ==
    /\ Len(Strip(line)) >= Len(TitlePrefix)
    /\ Lower(SubSeq(Strip(line), 1, Len(TitlePrefix))) = Lower(TitlePrefix)

\* what follows the tag on such a line, trimmed
TitleRest(line) ==
    Strip(SubSeq(Strip(line), Len(TitlePrefix) + 1, Len(Strip(line))))

\* C20: extract_title is total: it returns the trimmed remainder of the
\* first line among the first 60 that, trimmed, begins with "TITLE:" in any
\* letter case; without such a line among the first 60, the first
\* non-blank line of the whole text, trimmed, even if a "TITLE:" line comes
\* after line 60; and "Unknown Title" for a text that is blank throughout.
C20_TitleOfText ==
    fn.done =>
        LET lines == SplitLines(fn.text, <<>>)
            Scanned == { i \in DOMAIN lines : i <= TitleScanLines }
        IN  IF \E i \in Scanned : IsTitleLine(lines[i])
            THEN \E i \in Scanned :
                    /\ IsTitleLine(lines[i])
                    /\ \A j \in 1..(i - 1) : ~IsTitleLine(lines[j])
                    /\ fn.out = TitleRest(lines[i])
            ELSE IF \E i \in DOMAIN lines : Strip(lines[i]) # <<>>
            THEN \E i \in DOMAIN lines :
                    /\ Strip(lines[i]) # <<>>
                    /\ \A j \in 1..(i - 1) : Strip(lines[j]) = <<>>
                    /\ fn.out = Strip(lines[i])
            ELSE fn.out = UnknownTitle

\* C20 witness: the only "TITLE:" line of the text is line 61, filled
\* lines come before it, and the first of those was returned
C20_Witness ==
    /\ fn.done
    /\ LET lines == SplitLines(fn.text, <<>>) IN
       /\ Len(lines) > TitleScanLines
       /\ IsTitleLine(lines[TitleScanLines + 1])
       /\ TitleRest(lines[TitleScanLines + 1]) # <<>>
       /\ \A i \in 1..TitleScanLines : ~IsTitleLine(lines[i])
       /\ Strip(lines[1]) # <<>>
       /\ fn.out = Strip(lines[1])

====
